---- MODULE Spec2Model ----
(***************************************************************************)
(* win32console: the Handle ownership model (structs/handle.rs) and the    *)
(* WinConsole endpoint with its dual-path text I/O (console.rs).           *)
(*                                                                         *)
(* Raw handle values are resource identities 1..MaxRes; a resource id is   *)
(* never handed out twice by the OS model, so a CloseHandle on a released  *)
(* id fails instead of hitting another object.                             *)
(***************************************************************************)
EXTENDS Integers, Sequences, FiniteSets, TLC

\* ------------------------------------------------------------------------
\* Bounds of the model
\* ------------------------------------------------------------------------
MaxRes == 3          \* OS resources that can exist (raw handle values 1..MaxRes)
MaxHandles == 2      \* Handle / WinConsole values alive at the same time
MaxRebinds == 1      \* successful SetStdHandle calls in one run
MaxLen == 2          \* length of a data buffer given to a read or a write
MaxQueue == 3        \* input events waiting in the console input queue
MaxProcs == 5        \* processes attached to the console

\* ------------------------------------------------------------------------
\* Program constants
\* ------------------------------------------------------------------------
INVALID_HANDLE_VALUE == -1
ERROR_INVALID_HANDLE == 6

Roles == {"Input", "Output", "Error"}
Slots == 1..MaxHandles
Resources == 1..MaxRes
RawValues == Resources \cup {INVALID_HANDLE_VALUE}
\* The resources behind the standard handles when the process starts: the
\* console input buffer (1) and the console screen buffer (2).
StdResources == {1, 2}

\* u16 arithmetic
RECURSIVE BitAnd(_, _)
BitAnd(a, b) ==
    IF a = 0 \/ b = 0 THEN 0
    ELSE (a % 2) * (b % 2) + 2 * BitAnd(a \div 2, b \div 2)

RECURSIVE BitOr(_, _)
BitOr(a, b) ==
    IF a = 0 THEN b ELSE IF b = 0 THEN a
    ELSE (IF a % 2 = 1 \/ b % 2 = 1 THEN 1 ELSE 0) + 2 * BitOr(a \div 2, b \div 2)

BitNot16(a) == 65535 - a
Shl16(a, k) == (a * 2 ^ k) % 65536

VARIABLES
    handles,      \* Slots -> the Handle value held there (ownership "Free": none)
    stdSlot,      \* the OS standard-handle table: Roles -> raw value
    nRes,         \* resources 1..nRes have been handed out by the OS
    open,         \* Resources -> the resource has not been released
    closeCalls,   \* Resources -> number of CloseHandle calls issued for it
    everOwned,    \* Resources -> an Owned handle was ever made over it
    sharedDrops,  \* StdResources -> Shared handles over it dropped so far (capped at 2)
    rebinds,      \* successful SetStdHandle calls so far
    panicked,     \* an assertion or unwrap failed
    console,      \* the WinConsole value under observation (origin "none": none)
    hlast,        \* the last operation through console: what it acted on
    last,         \* the last read / write operation: its inputs and its outcome
    pipe,         \* the bytes held by the redirected sink (a pipe)
    sent,         \* the text last written to the pipe, and how far it has come
    win           \* the console session as the OS holds it (input queue, ...)

vars == <<handles, stdSlot, nRes, open, closeCalls, everOwned, sharedDrops,
          rebinds, panicked, console, hlast, last, pipe, sent, win>>

hVars == <<handles, stdSlot, nRes, open, closeCalls, everOwned, sharedDrops,
           rebinds, panicked, console, hlast>>
ioVars == <<last, pipe, sent, win>>

\* ------------------------------------------------------------------------
\* Handle (structs/handle.rs)
\* ------------------------------------------------------------------------
\* A slot holds a Handle, bare or inside a WinConsole: WinConsole(Handle) is a
\* newtype whose clone and drop are those of the Handle it holds.
FreeSlot == [raw |-> INVALID_HANDLE_VALUE, ownership |-> "Free"]

\* Handle::from_raw
from_raw(raw) == [raw |-> raw, ownership |-> "Shared"]

\* Handle::new_closeable
new_closeable(raw) == [raw |-> raw, ownership |-> "Owned"]

\* Handle::new, as console.rs calls it for a standard handle
Handle_new(raw) == [raw |-> raw, ownership |-> "Shared"]

\* Handle::new_owned, as console.rs calls it for a resource it has created
Handle_new_owned(raw) == [raw |-> raw, ownership |-> "Owned"]

\* Handle::is_valid
is_valid(h) == IF h.raw = INVALID_HANDLE_VALUE THEN FALSE ELSE TRUE

\* #[derive(Clone)] on Handle / RawHandle / WinConsole: a field-wise copy
CloneValue(h) == [raw |-> h.raw, ownership |-> h.ownership]

ShouldCloseAlways(h) == h.ownership # "Free"

\* RawHandle::drop: the condition under which CloseHandle is called
ShouldClose(h) == h.ownership = "Owned"

Live(s) == handles[s].ownership # "Free"

\* The effect of running the destructor of the value h on the OS state:
\* CloseHandle succeeds only on a resource that is still open, and the
\* assert! around it panics otherwise.
DropEffect(h) ==
    IF ShouldClose(h)
    THEN /\ closeCalls' = IF h.raw \in Resources
                          THEN [closeCalls EXCEPT ![h.raw] = @ + 1]
                          ELSE closeCalls
         /\ open' = IF h.raw \in Resources
                    THEN [open EXCEPT ![h.raw] = FALSE]
                    ELSE open
         /\ panicked' = ~(h.raw \in Resources /\ open[h.raw])
         /\ UNCHANGED sharedDrops
    ELSE /\ sharedDrops' = IF h.raw \in StdResources /\ sharedDrops[h.raw] < 2
                           THEN [sharedDrops EXCEPT ![h.raw] = @ + 1]
                           ELSE sharedDrops
         /\ UNCHANGED <<closeCalls, open, panicked>>

\* ------------------------------------------------------------------------
\* WinConsole: handle factories (console.rs)
\* ------------------------------------------------------------------------
Ok(v) == [ok |-> TRUE, handle |-> v, code |-> 0]
Err(code) == [ok |-> FALSE, handle |-> FreeSlot, code |-> code]

get_std_handle_unchecked(role) == Ok(Handle_new(stdSlot[role]))

get_std_handle_owned(role) ==
    IF stdSlot[role] = INVALID_HANDLE_VALUE
    THEN Err(ERROR_INVALID_HANDLE)
    ELSE Ok(Handle_new_owned(stdSlot[role]))

\* WinConsole::get_std_handle
get_std_handle(role) ==
    IF stdSlot[role] = INVALID_HANDLE_VALUE
    THEN Err(ERROR_INVALID_HANDLE)
    ELSE Ok(Handle_new(stdSlot[role]))

\* WinConsole::get_current_input_handle / get_current_output_handle, given the
\* raw value CreateFileW returned
get_current_handle(raw) ==
    IF raw = INVALID_HANDLE_VALUE
    THEN Err(ERROR_INVALID_HANDLE)
    ELSE Ok(Handle_new_owned(raw))

\* WinConsole::set_std_handle(handle_type, handle): SetStdHandle, then the
\* handle parameter, taken by value, is dropped when the function returns.
set_std_handle(role, h, ok) ==
    /\ stdSlot' = IF ok THEN [stdSlot EXCEPT ![role] = h.raw] ELSE stdSlot
    /\ rebinds' = IF ok THEN rebinds + 1 ELSE rebinds
    /\ DropEffect(h)

\* CreateFileW / CreateConsoleScreenBuffer handing out a new resource
OsCreate ==
    /\ nRes < MaxRes
    /\ nRes' = nRes + 1
    /\ open' = [open EXCEPT ![nRes + 1] = TRUE]

NoConsole == [raw |-> INVALID_HANDLE_VALUE, ownership |-> "Free", origin |-> "none"]

NoUse == [op |-> "none", origin |-> "none", used |-> INVALID_HANDLE_VALUE,
          current |-> INVALID_HANDLE_VALUE]

NoOp == [op |-> "none"]
NotSent == [phase |-> "idle", text |-> <<>>, sunk |-> <<>>, accepted |-> FALSE,
            drained |-> FALSE]

\* Coord::default()
CoordDefault == [x |-> 0, y |-> 0]

\* The id of the i-th process attached to the console
Pid(i) == 100 + i

\* Gray on black, the text attribute of a new console
DefaultAttr == 7
\* No colour has been set through set_background_color
NoColor == -1

\* The console session at process start: no input event is queued.
WinInit ==
    [queue |-> <<>>, before |-> <<>>, prev |-> NoOp,
     attr |-> DefaultAttr, bgset |-> NoColor,
     title |-> <<65>>, tset |-> [set |-> FALSE, text |-> <<>>],
     procs |-> <<Pid(1)>>,
     size |-> [x |-> 3, y |-> 2], cursor |-> CoordDefault,
     cells |-> [char |-> "space", attr |-> DefaultAttr],
     mode |-> [console_input |-> 7, console_output |-> 3]]

HInit ==
    /\ handles = [s \in Slots |-> FreeSlot]
    /\ stdSlot = [r \in Roles |-> IF r = "Input" THEN 1 ELSE 2]
    /\ nRes = Cardinality(StdResources)
    /\ open = [r \in Resources |-> r \in StdResources]
    /\ closeCalls = [r \in Resources |-> 0]
    /\ everOwned = [r \in Resources |-> FALSE]
    /\ sharedDrops = [r \in StdResources |-> 0]
    /\ rebinds = 0
    /\ panicked = FALSE
    /\ console = NoConsole
    /\ hlast = NoUse
    /\ last = NoOp
    /\ pipe = <<>>
    /\ sent = NotSent
    /\ win = WinInit

\* let h = WinConsole::get_std_handle(role)?
GetStdHandleAct(role, s) ==
    /\ ~panicked /\ ~Live(s)
    /\ get_std_handle(role).ok
    /\ handles' = [handles EXCEPT ![s] = get_std_handle(role).handle]
    /\ UNCHANGED <<stdSlot, nRes, open, closeCalls, everOwned, sharedDrops,
                   rebinds, panicked, console, hlast>>
    /\ UNCHANGED ioVars

\* Handle::from_raw(raw) over a raw value the caller knows
FromRawAct(raw, s) ==
    /\ ~panicked /\ ~Live(s)
    /\ raw \in (1..nRes) \cup {INVALID_HANDLE_VALUE}
    /\ handles' = [handles EXCEPT ![s] = from_raw(raw)]
    /\ UNCHANGED <<stdSlot, nRes, open, closeCalls, everOwned, sharedDrops,
                   rebinds, panicked, console, hlast>>
    /\ UNCHANGED ioVars

\* Handle::new_closeable(CreateFileW(..)) over a resource just opened
NewCloseableAct(s) ==
    /\ ~panicked /\ ~Live(s)
    /\ OsCreate
    /\ everOwned' = [everOwned EXCEPT ![nRes + 1] = TRUE]
    /\ handles' = [handles EXCEPT ![s] = new_closeable(nRes + 1)]
    /\ UNCHANGED <<stdSlot, closeCalls, sharedDrops, rebinds, panicked, console, hlast>>
    /\ UNCHANGED ioVars

\* WinConsole::get_current_input_handle() / get_current_output_handle():
\* CreateFileW on CONIN$ / CONOUT$ opened a new resource
GetCurrentHandleAct(s) ==
    /\ ~panicked /\ ~Live(s)
    /\ OsCreate
    /\ everOwned' = [everOwned EXCEPT ![nRes + 1] = TRUE]
    /\ handles' = [handles EXCEPT ![s] = get_current_handle(nRes + 1).handle]
    /\ UNCHANGED <<stdSlot, closeCalls, sharedDrops, rebinds, panicked, console, hlast>>
    /\ UNCHANGED ioVars

\* handle.clone() / console.clone()
CloneAct(s, t) ==
    /\ ~panicked /\ Live(s) /\ ~Live(t)
    /\ handles' = [handles EXCEPT ![t] = CloneValue(handles[s])]
    /\ UNCHANGED <<stdSlot, nRes, open, closeCalls, everOwned, sharedDrops,
                   rebinds, panicked, console, hlast>>
    /\ UNCHANGED ioVars

\* A move (into another binding, a closure or another thread): the value
\* changes place and no destructor runs.
MoveAct(s, t) ==
    /\ ~panicked /\ Live(s) /\ ~Live(t)
    /\ handles' = [handles EXCEPT ![t] = handles[s], ![s] = FreeSlot]
    /\ UNCHANGED <<stdSlot, nRes, open, closeCalls, everOwned, sharedDrops,
                   rebinds, panicked, console, hlast>>
    /\ UNCHANGED ioVars

\* The value in slot s goes out of scope: RawHandle::drop
DropAct(s) ==
    /\ ~panicked /\ Live(s)
    /\ DropEffect(handles[s])
    /\ handles' = [handles EXCEPT ![s] = FreeSlot]
    /\ UNCHANGED <<stdSlot, nRes, everOwned, rebinds, console, hlast>>
    /\ UNCHANGED ioVars

\* WinConsole::set_std_handle(role, handle) with the handle of slot s
SetStdHandleAct(role, s, ok) ==
    /\ ~panicked /\ Live(s)
    /\ rebinds < MaxRebinds
    /\ set_std_handle(role, handles[s], ok)
    /\ handles' = [handles EXCEPT ![s] = FreeSlot]
    /\ UNCHANGED <<nRes, everOwned, console, hlast>>
    /\ UNCHANGED ioVars

HNext ==
    \/ \E role \in Roles, s \in Slots : GetStdHandleAct(role, s)
    \/ \E raw \in RawValues, s \in Slots : FromRawAct(raw, s)
    \/ \E s \in Slots : NewCloseableAct(s)
    \/ \E s \in Slots : GetCurrentHandleAct(s)
    \/ \E s, t \in Slots : CloneAct(s, t)
    \/ \E s, t \in Slots : MoveAct(s, t)
    \/ \E s \in Slots : DropAct(s)
    \/ \E role \in Roles, s \in Slots, ok \in BOOLEAN : SetStdHandleAct(role, s, ok)

SpecHandle == HInit /\ [][HNext]_vars

\* ------------------------------------------------------------------------
\* WinConsole endpoints and the standard-handle table (console.rs)
\* ------------------------------------------------------------------------
\* WinConsole::get_handle: the Handle stored in the value when it was built
get_handle(c) == c.raw

\* WinConsole::input() / output() / error(): WinConsole(get_std_handle(role).unwrap())
ConsoleRole(role) ==
    /\ ~panicked /\ console.origin = "none"
    /\ IF get_std_handle(role).ok
       THEN /\ console' = [raw |-> get_std_handle(role).handle.raw,
                           ownership |-> get_std_handle(role).handle.ownership,
                           origin |-> role]
            /\ UNCHANGED panicked
       ELSE /\ panicked' = TRUE
            /\ UNCHANGED console
    /\ UNCHANGED <<handles, stdSlot, nRes, open, closeCalls, everOwned,
                   sharedDrops, rebinds, hlast>>
    /\ UNCHANGED ioVars

\* WinConsole::current_input() / current_output(): CreateFileW on CONIN$ /
\* CONOUT$ opens a new resource or returns INVALID_HANDLE_VALUE, and the
\* factory unwraps the result.
ConsoleCurrent(dir, created) ==
    /\ ~panicked /\ console.origin = "none"
    /\ IF created
       THEN /\ OsCreate
            /\ everOwned' = [everOwned EXCEPT ![nRes + 1] = TRUE]
            /\ console' = [raw |-> get_current_handle(nRes + 1).handle.raw,
                           ownership |-> get_current_handle(nRes + 1).handle.ownership,
                           origin |-> dir]
            /\ UNCHANGED panicked
       ELSE /\ panicked' = ~get_current_handle(INVALID_HANDLE_VALUE).ok
            /\ UNCHANGED <<nRes, open, everOwned, console>>
    /\ UNCHANGED <<handles, stdSlot, closeCalls, sharedDrops, rebinds, hlast>>
    /\ UNCHANGED ioVars

\* WinConsole::with_handle(Handle::from_raw(raw))
ConsoleWithHandle(raw) ==
    /\ ~panicked /\ console.origin = "none"
    /\ raw \in (1..nRes) \cup {INVALID_HANDLE_VALUE}
    /\ console' = [raw |-> from_raw(raw).raw, ownership |-> from_raw(raw).ownership,
                   origin |-> "with_handle"]
    /\ UNCHANGED <<handles, stdSlot, nRes, open, closeCalls, everOwned,
                   sharedDrops, rebinds, panicked, hlast>>
    /\ UNCHANGED ioVars

\* The WinConsole value goes out of scope
ConsoleDrop ==
    /\ ~panicked /\ console.origin # "none"
    /\ DropEffect(console)
    /\ console' = NoConsole
    /\ UNCHANGED <<handles, stdSlot, nRes, everOwned, rebinds, hlast>>
    /\ UNCHANGED ioVars

\* Some code of the process rebinds a role:
\* WinConsole::set_std_handle(role, Handle::from_raw(raw))
Rebind(role, raw, ok) ==
    /\ ~panicked
    /\ rebinds < MaxRebinds
    /\ raw \in (1..nRes) \cup {INVALID_HANDLE_VALUE}
    /\ set_std_handle(role, from_raw(raw), ok)
    /\ UNCHANGED <<handles, nRes, everOwned, console, hlast>>
    /\ UNCHANGED ioVars

\* WinConsole::get_mode through the endpoint: GetConsoleMode on the handle
\* get_handle() yields. hlast records the handle the native call was given
\* and the handle the endpoint's role denotes at that moment.
ConsoleGetMode ==
    /\ ~panicked /\ console.origin # "none"
    /\ hlast' = [op |-> "get_mode", origin |-> console.origin,
                 used |-> get_handle(console),
                 current |-> IF console.origin \in Roles
                             THEN stdSlot[console.origin]
                             ELSE get_handle(console)]
    /\ UNCHANGED <<handles, stdSlot, nRes, open, closeCalls, everOwned,
                   sharedDrops, rebinds, panicked, console>>
    /\ UNCHANGED ioVars

ENext ==
    \/ \E role \in Roles : ConsoleRole(role)
    \/ \E dir \in {"current_input", "current_output"}, created \in BOOLEAN :
          ConsoleCurrent(dir, created)
    \/ \E raw \in RawValues : ConsoleWithHandle(raw)
    \/ ConsoleDrop
    \/ \E role \in Roles, raw \in RawValues, ok \in BOOLEAN : Rebind(role, raw, ok)
    \/ ConsoleGetMode

SpecEndpoint == HInit /\ [][ENext]_vars

\* WinConsole::create_console_screen_buffer / _with_options, given the raw
\* value CreateConsoleScreenBuffer returned
create_console_screen_buffer(raw) ==
    IF raw = INVALID_HANDLE_VALUE
    THEN Err("InvalidData")
    ELSE Ok(Handle_new_owned(raw))

\* WinConsole::with_handle(WinConsole::create_console_screen_buffer()?):
\* CreateConsoleScreenBuffer creates a new resource, or fails and the caller
\* gets the error and builds no endpoint.
ConsoleScreenBuffer(created) ==
    /\ ~panicked /\ console.origin = "none"
    /\ IF created
       THEN /\ OsCreate
            /\ everOwned' = [everOwned EXCEPT ![nRes + 1] = TRUE]
            /\ console' = [raw |-> create_console_screen_buffer(nRes + 1).handle.raw,
                           ownership |->
                               create_console_screen_buffer(nRes + 1).handle.ownership,
                           origin |-> "screen_buffer"]
            /\ hlast' = [hlast EXCEPT !.op = "create_console_screen_buffer"]
       ELSE /\ ~create_console_screen_buffer(INVALID_HANDLE_VALUE).ok
            /\ hlast' = [hlast EXCEPT !.op = "create_console_screen_buffer failed"]
            /\ UNCHANGED <<nRes, open, everOwned, console>>
    /\ UNCHANGED <<handles, stdSlot, closeCalls, sharedDrops, rebinds, panicked>>
    /\ UNCHANGED ioVars

ONext ==
    \/ ENext
    \/ \E created \in BOOLEAN : ConsoleScreenBuffer(created)

SpecOwnership == HInit /\ [][ONext]_vars

\* ------------------------------------------------------------------------
\* Text encodings (String::from_utf16, String::from_utf8, char::encode_utf8,
\* std::char::decode_utf16)
\* ------------------------------------------------------------------------
IsHighSurrogate(u) == u >= 55296 /\ u <= 56319     \* 0xD800..0xDBFF
IsLowSurrogate(u) == u >= 56320 /\ u <= 57343      \* 0xDC00..0xDFFF
IsSurrogate(u) == IsHighSurrogate(u) \/ IsLowSurrogate(u)

\* String::from_utf16(units).is_ok(): every surrogate is half of a pair
ValidUtf16(units) ==
    \A i \in 1..Len(units) :
        /\ IsHighSurrogate(units[i]) => (i < Len(units) /\ IsLowSurrogate(units[i + 1]))
        /\ IsLowSurrogate(units[i]) => (i > 1 /\ IsHighSurrogate(units[i - 1]))

\* The code points of a valid UTF-16 sequence
RECURSIVE DecodeUtf16(_)
DecodeUtf16(units) ==
    IF units = <<>> THEN <<>>
    ELSE IF IsHighSurrogate(Head(units)) /\ Len(units) >= 2
         THEN <<65536 + (Head(units) - 55296) * 1024 + (units[2] - 56320)>>
              \o DecodeUtf16(SubSeq(units, 3, Len(units)))
         ELSE <<Head(units)>> \o DecodeUtf16(Tail(units))

\* char::len_utf8
Utf8Len(c) == IF c < 128 THEN 1 ELSE IF c < 2048 THEN 2 ELSE IF c < 65536 THEN 3 ELSE 4

\* char::encode_utf8
EncodeChar(c) ==
    IF c < 128 THEN <<c>>
    ELSE IF c < 2048 THEN <<192 + (c \div 64), 128 + (c % 64)>>
    ELSE IF c < 65536
         THEN <<224 + (c \div 4096), 128 + ((c \div 64) % 64), 128 + (c % 64)>>
         ELSE <<240 + (c \div 262144), 128 + ((c \div 4096) % 64),
                128 + ((c \div 64) % 64), 128 + (c % 64)>>

\* The bytes of a String holding the given code points
RECURSIVE Utf8Encode(_)
Utf8Encode(chars) ==
    IF chars = <<>> THEN <<>> ELSE EncodeChar(Head(chars)) \o Utf8Encode(Tail(chars))

IsCont(b) == b >= 128 /\ b <= 191

\* String::from_utf8(bytes).is_ok()
RECURSIVE ValidUtf8(_)
ValidUtf8(bytes) ==
    IF bytes = <<>> THEN TRUE
    ELSE LET b == Head(bytes)
             n == Len(bytes)
         IN IF b < 128 THEN ValidUtf8(Tail(bytes))
            ELSE IF b >= 194 /\ b <= 223
                 THEN n >= 2 /\ IsCont(bytes[2]) /\ ValidUtf8(SubSeq(bytes, 3, n))
            ELSE IF b >= 224 /\ b <= 239
                 THEN /\ n >= 3 /\ IsCont(bytes[2]) /\ IsCont(bytes[3])
                      /\ (b = 224 => bytes[2] >= 160)
                      /\ (b = 237 => bytes[2] <= 159)
                      /\ ValidUtf8(SubSeq(bytes, 4, n))
            ELSE IF b >= 240 /\ b <= 244
                 THEN /\ n >= 4 /\ IsCont(bytes[2]) /\ IsCont(bytes[3]) /\ IsCont(bytes[4])
                      /\ (b = 240 => bytes[2] >= 144)
                      /\ (b = 244 => bytes[2] <= 143)
                      /\ ValidUtf8(SubSeq(bytes, 5, n))
            ELSE FALSE

Fill(n, v) == [i \in 1..n |-> v]

\* ------------------------------------------------------------------------
\* The native calls, as the fake OS answers them
\* ------------------------------------------------------------------------
\* What a raw handle denotes in the I/O specifications: 1 is the console input
\* buffer, 2 the console screen buffer, any other resource a redirected file
\* or pipe.
Kind(raw) ==
    IF raw = INVALID_HANDLE_VALUE THEN "invalid"
    ELSE IF raw = 1 THEN "console_input"
    ELSE IF raw = 2 THEN "console_output"
    ELSE "file"

IsConsoleResource(raw) == Kind(raw) \in {"console_input", "console_output"}

\* An outcome of a native call: success flag, the count it reports and, for a
\* read, what it delivered.
OsFail == [ok |-> FALSE, count |-> 0, units |-> <<>>]
OsOk(k, u) == [ok |-> TRUE, count |-> k, units |-> u]

ByteCalls == {"WriteFile", "ReadFile"}
ConsoleCalls == {"WriteConsoleA", "WriteConsoleW", "ReadConsoleW"}
EventCalls == {"ReadConsoleInputW", "PeekConsoleInputW"}

\* The OS rejects a call on a handle that cannot service it.
OsAccepts(call, raw) ==
    \/ call \in ByteCalls /\ Kind(raw) = "file"
    \/ call \in {"WriteConsoleA", "WriteConsoleW"} /\ Kind(raw) = "console_output"
    \/ call \in {"ReadConsoleW"} \cup EventCalls /\ Kind(raw) = "console_input"

Native(call, raw, os) == IF OsAccepts(call, raw) THEN os ELSE OsFail

\* ------------------------------------------------------------------------
\* WinConsole: text and input-event I/O (console.rs)
\* ------------------------------------------------------------------------
CTRL_Z == 26
MAX_BUFFER_SIZE == 4096

\* The result of an operation. kind: "ok" (val is the count returned), "err"
\* (err names the error) or "panic". calls: the native calls issued, in order.
\* osok / reported: the native I/O call succeeded / the count it reported.
\* offered / sink: the bytes handed to WriteFile / the bytes the sink took.
\* delivered: what a console read put in the buffer. buf: the caller's buffer
\* after the call. text: the String returned. events: the records returned.
R0 == [kind |-> "ok", val |-> 0, err |-> "", calls |-> <<>>, osok |-> FALSE,
       reported |-> 0, offered |-> <<>>, sink |-> <<>>, delivered |-> <<>>,
       buf |-> <<>>, text |-> <<>>, events |-> <<>>]

IsEmptyNever(n) == FALSE

\* `if buffer.len() == 0 { return Ok(0); }`
IsEmpty(n) == n = 0

is_console_output_only(raw) == Kind(raw) = "console_output"

\* WinConsole::is_console: GetConsoleMode(handle) != 0
is_console(raw) == IsConsoleResource(raw)

NativeFailedNever(o) == FALSE

\* `if NativeCall(..) == 0`
NativeFailed(o) == ~o.ok

ConsoleWriteResultUnchecked(r, n, written) ==
    [r EXCEPT !.kind = "ok", !.val = written]

\* `assert_eq!(chars_written, data.len() as u32); Ok(chars_written as usize)`
ConsoleWriteResult(r, n, written) ==
    IF written # n THEN [r EXCEPT !.kind = "panic"]
    ELSE [r EXCEPT !.kind = "ok", !.val = written]

\* The redirected branch shared by write_utf8 and write_utf16: WriteFile is
\* given the String's bytes and data.len() as the length, and data.len() is
\* returned.
RedirectedWrite(raw, bytes, n, os) ==
    LET o == Native("WriteFile", raw, os)
        offered == SubSeq(bytes, 1, n)
        r == [R0 EXCEPT !.calls = <<"GetConsoleMode", "WriteFile">>,
                        !.osok = o.ok, !.reported = o.count, !.offered = offered]
    IN IF NativeFailed(o)
       THEN [r EXCEPT !.kind = "err", !.err = "os"]
       ELSE [r EXCEPT !.kind = "ok", !.val = n, !.sink = SubSeq(offered, 1, o.count)]

ConsoleWrite(call, raw, n, os) ==
    LET o == Native(call, raw, os)
        r == [R0 EXCEPT !.calls = <<"GetConsoleMode", call>>,
                        !.osok = o.ok, !.reported = o.count]
    IN IF NativeFailed(o)
       THEN [r EXCEPT !.kind = "err", !.err = "os"]
       ELSE ConsoleWriteResult(r, n, o.count)

\* WinConsole::write_utf8
write_utf8(c, data, os) ==
    IF IsEmpty(Len(data)) THEN R0
    ELSE LET handle == get_handle(c)
         IN IF ~is_console(handle)
            THEN IF ~ValidUtf8(data)
                 THEN [R0 EXCEPT !.kind = "err", !.err = "InvalidInput",
                                 !.calls = <<"GetConsoleMode">>]
                 ELSE RedirectedWrite(handle, data, Len(data), os)
            ELSE ConsoleWrite("WriteConsoleA", handle, Len(data), os)

\* WinConsole::write_utf16
write_utf16(c, data, os) ==
    IF IsEmpty(Len(data)) THEN R0
    ELSE LET handle == get_handle(c)
         IN IF ~is_console(handle)
            THEN IF ~ValidUtf16(data)
                 THEN [R0 EXCEPT !.kind = "err", !.err = "InvalidInput",
                                 !.calls = <<"GetConsoleMode">>]
                 ELSE RedirectedWrite(handle, Utf8Encode(DecodeUtf16(data)),
                                      Len(data), os)
            ELSE ConsoleWrite("WriteConsoleW", handle, Len(data), os)

\* The redirected branch shared by read_utf16 and read_utf16_with_control:
\* ReadFile fills a String built from the buffer, not the buffer.
RedirectedRead(raw, buffer, os) ==
    IF ~ValidUtf16(buffer)
    THEN [R0 EXCEPT !.kind = "err", !.err = "InvalidInput",
                    !.calls = <<"GetConsoleMode">>, !.buf = buffer]
    ELSE LET o == Native("ReadFile", raw, os)
             r == [R0 EXCEPT !.calls = <<"GetConsoleMode", "ReadFile">>,
                             !.osok = o.ok, !.reported = o.count, !.buf = buffer]
         IN IF NativeFailed(o)
            THEN [r EXCEPT !.kind = "err", !.err = "os"]
            ELSE [r EXCEPT !.kind = "ok", !.val = o.count]

TrimNone(buf, chars_read) == chars_read

\* `if chars_read > 0 && buffer[chars_read - 1] == CTRL_Z { chars_read -= 1; }`
TrimCtrlZ(buf, chars_read) ==
    IF chars_read > 0 /\ buf[chars_read] = CTRL_Z THEN chars_read - 1 ELSE chars_read

\* The console branch of a read: ReadConsoleW writes the units into the
\* buffer and reports their number.
ConsoleRead(raw, buffer, os, trim) ==
    LET o == Native("ReadConsoleW", raw, os)
        after == o.units \o SubSeq(buffer, Len(o.units) + 1, Len(buffer))
        r == [R0 EXCEPT !.calls = <<"GetConsoleMode", "ReadConsoleW">>,
                        !.osok = o.ok, !.reported = o.count,
                        !.delivered = o.units, !.buf = after]
    IN IF NativeFailed(o)
       THEN [r EXCEPT !.kind = "err", !.err = "os"]
       ELSE [r EXCEPT !.kind = "ok",
                      !.val = IF trim THEN TrimCtrlZ(after, o.count)
                              ELSE o.count]

\* WinConsole::read_utf16
read_utf16(c, buffer, os) ==
    IF IsEmpty(Len(buffer)) THEN R0
    ELSE LET handle == get_handle(c)
         IN IF ~is_console(handle)
            THEN RedirectedRead(handle, buffer, os)
            ELSE ConsoleRead(handle, buffer, os, TRUE)

\* WinConsole::read_utf16_with_control
read_utf16_with_control(c, buffer, os) ==
    IF IsEmpty(Len(buffer)) THEN R0
    ELSE LET handle == get_handle(c)
         IN IF ~is_console(handle)
            THEN RedirectedRead(handle, buffer, os)
            ELSE ConsoleRead(handle, buffer, os, FALSE)

from_utf16_lossy(units) ==
    [ok |-> TRUE,
     chars |-> [i \in DOMAIN units |-> IF IsSurrogate(units[i]) THEN 65533 ELSE units[i]]]

\* String::from_utf16: the decoded text, or an error when a surrogate is
\* unpaired.
from_utf16(units) ==
    IF ValidUtf16(units) THEN [ok |-> TRUE, chars |-> DecodeUtf16(units)]
    ELSE [ok |-> FALSE, chars |-> <<>>]

\* WinConsole::read_string
read_string(c, os) ==
    LET r == read_utf16(c, Fill(MAX_BUFFER_SIZE, 0), os)
        s == from_utf16(SubSeq(r.buf, 1, r.val))
    IN IF r.kind # "ok" THEN [r EXCEPT !.buf = <<>>]
       ELSE IF s.ok
            THEN [r EXCEPT !.buf = <<>>, !.text = s.chars]
            ELSE [r EXCEPT !.buf = <<>>, !.kind = "err", !.err = "InvalidData"]

\* WinConsole::utf16_to_utf8 over source[i..], with `written` bytes already in
\* a destination of n bytes: encode_utf8 panics when the rest of the
\* destination is too short for the character.
RECURSIVE utf16_to_utf8(_, _, _, _)
utf16_to_utf8(source, i, written, n) ==
    IF i > Len(source) THEN [kind |-> "ok", val |-> written]
    ELSE LET u == source[i]
             paired == IsHighSurrogate(u) /\ i < Len(source)
                       /\ IsLowSurrogate(source[i + 1])
             len == IF paired THEN 4 ELSE Utf8Len(u)
         IN IF IsSurrogate(u) /\ ~paired THEN [kind |-> "err", val |-> written]
            ELSE IF written + len > n THEN [kind |-> "panic", val |-> written]
            ELSE utf16_to_utf8(source, IF paired THEN i + 2 ELSE i + 1,
                               written + len, n)

\* WinConsole::read_utf8
read_utf8(c, n, os) ==
    IF IsEmpty(n) THEN R0
    ELSE LET r == read_utf16(c, Fill(n, 0), os)
             w == utf16_to_utf8(r.buf, 1, 0, n)
         IN IF r.kind # "ok" THEN r
            ELSE IF w.kind = "err" THEN [r EXCEPT !.kind = "err", !.err = "InvalidData"]
            ELSE IF w.kind = "panic" THEN [r EXCEPT !.kind = "panic"]
            ELSE [r EXCEPT !.val = w.val]

\* WinConsole::read_utf8_with_control
read_utf8_with_control(c, n, os) ==
    IF IsEmpty(n) THEN R0
    ELSE LET r == read_utf16_with_control(c, Fill(n, 0), os)
             w == utf16_to_utf8(r.buf, 1, 0, n)
         IN IF r.kind # "ok" THEN r
            ELSE IF w.kind = "err" THEN [r EXCEPT !.kind = "err", !.err = "InvalidData"]
            ELSE IF w.kind = "panic" THEN [r EXCEPT !.kind = "panic"]
            ELSE r

\* From<INPUT_RECORD> for InputRecord: the event types it knows; any other
\* type (a zeroed record among them) reaches unreachable!().
KnownEvents == {"Key", "Mouse", "WindowBufferSize", "Focus", "Menu"}

\* The body shared by read_input and peek_input after the empty-buffer test:
\* the native call, debug_assert!(num_events > 0), then the conversion of all
\* num_records entries of the zero-initialised native buffer.
InputRead(call, raw, n, os, debug) ==
    LET o == Native(call, raw, os)
        native == o.units \o Fill(n - Len(o.units), "Zeroed")
        r == [R0 EXCEPT !.calls = <<call>>, !.osok = o.ok, !.reported = o.count]
    IN IF NativeFailed(o)
       THEN [r EXCEPT !.kind = "err", !.err = "os"]
       ELSE IF debug /\ ~(o.count > 0) THEN [r EXCEPT !.kind = "panic"]
       ELSE IF \E i \in 1..n : native[i] \notin KnownEvents
            THEN [r EXCEPT !.kind = "panic"]
            ELSE [r EXCEPT !.kind = "ok", !.val = o.count, !.events = native]

\* WinConsole::read_input
read_input(c, n, os, debug) ==
    IF IsEmpty(n) THEN R0
    ELSE InputRead("ReadConsoleInputW", get_handle(c), n, os, debug)

PeekCallConsuming == "ReadConsoleInputW"

\* The native call peek_input wraps
PeekCall == "PeekConsoleInputW"

\* WinConsole::peek_input
peek_input(c, n, os, debug) ==
    IF IsEmpty(n) THEN R0
    ELSE InputRead(PeekCall, get_handle(c), n, os, debug)

\* WinConsole::read_single_input
read_single_input(c, os, debug) == read_input(c, 1, os, debug)

\* WinConsole::read_input_n
read_input_n(c, n, os, debug) ==
    IF IsEmpty(n) THEN R0
    ELSE read_input(c, n, os, debug)

\* ------------------------------------------------------------------------
\* The I/O operations as steps: inputs drawn from bounded sets
\* ------------------------------------------------------------------------
SeqsUpTo(S, n) == UNION {[1..k -> S] : k \in 0..n}

ByteAlphabet == {65, 195, 169}                    \* 'A', and the two bytes of U+00E9
UnitAlphabet == {26, 65, 233, 55296, 56320}       \* Ctrl-Z, 'A', U+00E9, a surrogate pair
Fills == {0, 55296}                               \* what the caller's buffer holds before a read
EventAlphabet == {"Key", "Focus"}

\* The WinConsole values an operation is called on
IoConsoles ==
    {[raw |-> r, ownership |-> "Shared", origin |-> o] :
        r \in RawValues, o \in {"Input", "Output", "with_handle"}}

CountOutcomes(n) == {OsFail} \cup {OsOk(k, <<>>) : k \in 0..n}
UnitOutcomes(n) == {OsFail} \cup {OsOk(Len(u), u) : u \in SeqsUpTo(UnitAlphabet, n)}
EventOutcomes(n) == {OsFail} \cup {OsOk(Len(e), e) : e \in SeqsUpTo(EventAlphabet, n)}
ReadOutcomes(raw, n) == IF Kind(raw) = "file" THEN CountOutcomes(n) ELSE UnitOutcomes(n)

Record(op, c, n, data, debug, r) ==
    [op |-> op, raw |-> c.raw, origin |-> c.origin, n |-> n, data |-> data,
     debug |-> debug, res |-> r]

WriteUtf8Act ==
    \E c \in IoConsoles, data \in SeqsUpTo(ByteAlphabet, MaxLen) :
      \E os \in CountOutcomes(Len(data)) :
        /\ last.op = "none"
        /\ last' = Record("write_utf8", c, Len(data), data, FALSE, write_utf8(c, data, os))
        /\ UNCHANGED <<hVars, pipe, sent, win>>

WriteUtf16Act ==
    \E c \in IoConsoles, data \in SeqsUpTo(UnitAlphabet, MaxLen) :
      \E os \in CountOutcomes(Len(data)) :
        /\ last.op = "none"
        /\ last' = Record("write_utf16", c, Len(data), data, FALSE, write_utf16(c, data, os))
        /\ UNCHANGED <<hVars, pipe, sent, win>>

ReadUtf16Act ==
    \E c \in IoConsoles, n \in 0..MaxLen, fill \in Fills :
      \E os \in ReadOutcomes(c.raw, n) :
        /\ last.op = "none"
        /\ last' = Record("read_utf16", c, n, Fill(n, fill), FALSE,
                          read_utf16(c, Fill(n, fill), os))
        /\ UNCHANGED <<hVars, pipe, sent, win>>

ReadUtf16WithControlAct ==
    \E c \in IoConsoles, n \in 0..MaxLen, fill \in Fills :
      \E os \in ReadOutcomes(c.raw, n) :
        /\ last.op = "none"
        /\ last' = Record("read_utf16_with_control", c, n, Fill(n, fill), FALSE,
                          read_utf16_with_control(c, Fill(n, fill), os))
        /\ UNCHANGED <<hVars, pipe, sent, win>>

ReadStringAct ==
    \E c \in IoConsoles :
      \E os \in ReadOutcomes(c.raw, MaxLen) :
        /\ last.op = "none"
        /\ last' = Record("read_string", c, MAX_BUFFER_SIZE, <<>>, FALSE, read_string(c, os))
        /\ UNCHANGED <<hVars, pipe, sent, win>>

ReadUtf8Act ==
    \E c \in IoConsoles, n \in 0..MaxLen :
      \E os \in ReadOutcomes(c.raw, n) :
        /\ last.op = "none"
        /\ last' = Record("read_utf8", c, n, <<>>, FALSE, read_utf8(c, n, os))
        /\ UNCHANGED <<hVars, pipe, sent, win>>

ReadUtf8WithControlAct ==
    \E c \in IoConsoles, n \in 0..MaxLen :
      \E os \in ReadOutcomes(c.raw, n) :
        /\ last.op = "none"
        /\ last' = Record("read_utf8_with_control", c, n, <<>>, FALSE,
                          read_utf8_with_control(c, n, os))
        /\ UNCHANGED <<hVars, pipe, sent, win>>

ReadInputAct ==
    \E c \in IoConsoles, n \in 0..MaxLen, debug \in BOOLEAN :
      \E os \in EventOutcomes(n) :
        /\ last.op = "none"
        /\ last' = Record("read_input", c, n, <<>>, debug, read_input(c, n, os, debug))
        /\ UNCHANGED <<hVars, pipe, sent, win>>

PeekInputAct ==
    \E c \in IoConsoles, n \in 0..MaxLen, debug \in BOOLEAN :
      \E os \in EventOutcomes(n) :
        /\ last.op = "none"
        /\ last' = Record("peek_input", c, n, <<>>, debug, peek_input(c, n, os, debug))
        /\ UNCHANGED <<hVars, pipe, sent, win>>

ReadSingleInputAct ==
    \E c \in IoConsoles, debug \in BOOLEAN :
      \E os \in EventOutcomes(1) :
        /\ last.op = "none"
        /\ last' = Record("read_single_input", c, 1, <<>>, debug,
                          read_single_input(c, os, debug))
        /\ UNCHANGED <<hVars, pipe, sent, win>>

ReadInputNAct ==
    \E c \in IoConsoles, n \in 0..MaxLen, debug \in BOOLEAN :
      \E os \in EventOutcomes(n) :
        /\ last.op = "none"
        /\ last' = Record("read_input_n", c, n, <<>>, debug, read_input_n(c, n, os, debug))
        /\ UNCHANGED <<hVars, pipe, sent, win>>

\* The caller takes the result; the next call can start.
IoReturn ==
    /\ last.op # "none"
    /\ last' = NoOp
    /\ UNCHANGED <<hVars, pipe, sent, win>>

IoNext ==
    \/ WriteUtf8Act
    \/ WriteUtf16Act
    \/ ReadUtf16Act
    \/ ReadUtf16WithControlAct
    \/ ReadStringAct
    \/ ReadUtf8Act
    \/ ReadUtf8WithControlAct
    \/ ReadInputAct
    \/ PeekInputAct
    \/ ReadSingleInputAct
    \/ ReadInputNAct
    \/ IoReturn

SpecIO == HInit /\ [][IoNext]_vars

\* ------------------------------------------------------------------------
\* The console input queue under peek_input and read_input
\* ------------------------------------------------------------------------
Min(a, b) == IF a < b THEN a ELSE b

\* What ReadConsoleInputW / PeekConsoleInputW deliver from the queue: its
\* first events, at most n of them, in order; or the call fails.
QueueOutcomes(n) ==
    {OsFail, OsOk(Min(n, Len(win.queue)), SubSeq(win.queue, 1, Min(n, Len(win.queue))))}

\* The events a finished call took off the queue: ReadConsoleInputW removes
\* what it reports, PeekConsoleInputW removes nothing.
Consumed(r) ==
    IF r.osok /\ r.calls = <<"ReadConsoleInputW">> THEN r.reported ELSE 0

\* The endpoints the queue is read through: made by WinConsole::input() or
\* from a given handle.
QConsoles == {c \in IoConsoles : c.origin # "Output"}

\* An input event arrives while no call is in progress.
QArrive ==
    \E e \in EventAlphabet :
        /\ last.op = "none" /\ Len(win.queue) < MaxQueue
        /\ win' = [win EXCEPT !.queue = Append(@, e), !.prev = NoOp]
        /\ UNCHANGED <<hVars, last, pipe, sent>>

QPeekInput ==
    \E c \in QConsoles, n \in 0..MaxLen, debug \in BOOLEAN :
      \E os \in QueueOutcomes(n) :
        /\ last.op = "none"
        /\ LET r == peek_input(c, n, os, debug)
           IN /\ last' = Record("peek_input", c, n, <<>>, debug, r)
              /\ win' = [win EXCEPT !.before = win.queue,
                                    !.queue = SubSeq(@, Consumed(r) + 1, Len(@))]
        /\ UNCHANGED <<hVars, pipe, sent>>

\* ReadConsoleInputW does not return before an event is available.
QReadInput ==
    \E c \in QConsoles, n \in 0..MaxLen, debug \in BOOLEAN :
      \E os \in QueueOutcomes(n) :
        /\ last.op = "none" /\ Len(win.queue) > 0
        /\ LET r == read_input(c, n, os, debug)
           IN /\ last' = Record("read_input", c, n, <<>>, debug, r)
              /\ win' = [win EXCEPT !.before = win.queue,
                                    !.queue = SubSeq(@, Consumed(r) + 1, Len(@))]
        /\ UNCHANGED <<hVars, pipe, sent>>

\* The caller takes the result; a successful peek is remembered until the
\* queue changes.
QReturn ==
    /\ last.op # "none"
    /\ last' = NoOp
    /\ win' = [win EXCEPT !.prev = IF last.op = "peek_input" /\ last.res.kind = "ok"
                                   THEN last ELSE NoOp]
    /\ UNCHANGED <<hVars, pipe, sent>>

QNext == QArrive \/ QPeekInput \/ QReadInput \/ QReturn

SpecQueue == HInit /\ [][QNext]_vars

\* ------------------------------------------------------------------------
\* Text attribute and colours
\* ------------------------------------------------------------------------
FG_COLOR_MARK == 15
BG_COLOR_MASK == 240

\* enum ConsoleColor, Black = 0 .. White = 15
ConsoleColors == 0..15

\* ConsoleColor::as_foreground_color / as_background_color
as_foreground_color(color) == color
as_background_color(color) == Shl16(color, 4)

\* TryFrom<u16> for ConsoleColor
try_from(value) ==
    IF value \in ConsoleColors THEN [ok |-> TRUE, color |-> value]
    ELSE [ok |-> FALSE, color |-> NoColor]

\* The calls on a screen buffer succeed only on a console output handle.
ScreenCallOk(raw, ok) == ok /\ Kind(raw) = "console_output"

\* The result of a query or a change: calls are the native calls issued in
\* order, failed the position of the call that reported failure (0: none).
Q0 == [kind |-> "ok", val |-> 0, err |-> "", calls |-> <<>>, failed |-> 0,
       args |-> <<>>]

QFail(r) == [r EXCEPT !.kind = "err", !.err = "os", !.failed = Len(r.calls)]

\* WinConsole::get_screen_buffer_info
get_screen_buffer_info(c, ok) ==
    LET r == [Q0 EXCEPT !.calls = <<"GetConsoleScreenBufferInfo">>]
    IN IF ScreenCallOk(get_handle(c), ok)
       THEN [r EXCEPT !.val = [attributes |-> win.attr,
                               screen_buffer_size |-> win.size]]
       ELSE QFail(r)

\* WinConsole::get_text_attribute
get_text_attribute(c, ok) ==
    LET r == get_screen_buffer_info(c, ok)
    IN IF r.kind # "ok" THEN r ELSE [r EXCEPT !.val = r.val.attributes]

\* WinConsole::set_text_attribute, after the calls of r
set_text_attribute(r, c, attribute, ok) ==
    LET r1 == [r EXCEPT !.calls = Append(@, "SetConsoleTextAttribute")]
    IN IF ScreenCallOk(get_handle(c), ok)
       THEN [r1 EXCEPT !.kind = "ok", !.val = attribute]
       ELSE QFail(r1)

\* WinConsole::get_foreground_color
get_foreground_color(c, ok) ==
    LET r == get_text_attribute(c, ok)
        attributes == r.val
    IN IF r.kind # "ok" THEN r
       ELSE IF try_from(BitAnd(attributes, FG_COLOR_MARK)).ok
            THEN [r EXCEPT !.val = try_from(BitAnd(attributes, FG_COLOR_MARK)).color]
            ELSE [r EXCEPT !.kind = "panic"]

\* `self.get_text_attribute()? << 4`
ShiftedAttributes(a) == Shl16(a, 4)

\* WinConsole::get_background_color
get_background_color(c, ok) ==
    LET r == get_text_attribute(c, ok)
        attributes == ShiftedAttributes(r.val)
    IN IF r.kind # "ok" THEN r
       ELSE IF try_from(BitAnd(attributes, BG_COLOR_MASK)).ok
            THEN [r EXCEPT !.val = try_from(BitAnd(attributes, BG_COLOR_MASK)).color]
            ELSE [r EXCEPT !.kind = "panic"]

\* WinConsole::set_foreground_color
set_foreground_color(c, color, ok1, ok2) ==
    LET r == get_text_attribute(c, ok1)
        old_attributes == r.val
        new_attributes ==
            BitOr(BitAnd(old_attributes,
                         BitNot16(BitAnd(old_attributes, FG_COLOR_MARK))),
                  as_foreground_color(color))
    IN IF r.kind # "ok" THEN r
       ELSE set_text_attribute(r, c, new_attributes, ok2)

\* WinConsole::set_background_color
set_background_color(c, color, ok1, ok2) ==
    LET r == get_text_attribute(c, ok1)
        old_attributes == r.val
        new_attributes ==
            BitOr(BitAnd(old_attributes,
                         BitNot16(BitAnd(old_attributes, BG_COLOR_MASK))),
                  as_background_color(color))
    IN IF r.kind # "ok" THEN r
       ELSE set_text_attribute(r, c, new_attributes, ok2)

\* Attributes a caller gives to set_text_attribute: gray on black, black on
\* gray, blue on red, underscored gray on black
AttrValues == {7, 112, 65, 32775}

\* The attribute the console holds after a call that ended with
\* SetConsoleTextAttribute
AttrAfter(r) ==
    IF r.kind = "ok" /\ r.calls # <<>> /\ r.calls[Len(r.calls)] = "SetConsoleTextAttribute"
    THEN r.val ELSE win.attr

\* The endpoints the screen buffer is reached through: made by
\* WinConsole::output() or from a given handle.
ScreenConsoles == {c \in IoConsoles : c.origin # "Input"}

QRecord(op, c, arg, r) ==
    [op |-> op, raw |-> c.raw, origin |-> c.origin, arg |-> arg, res |-> r]

SetTextAttributeAct ==
    \E c \in ScreenConsoles, attribute \in AttrValues, ok \in BOOLEAN :
        /\ last.op = "none"
        /\ LET r == set_text_attribute(Q0, c, attribute, ok)
           IN /\ last' = QRecord("set_text_attribute", c, attribute, r)
              /\ win' = [win EXCEPT !.attr = AttrAfter(r),
                                    !.bgset = IF r.kind = "ok" THEN NoColor ELSE @]
        /\ UNCHANGED <<hVars, pipe, sent>>

SetForegroundColorAct ==
    \E c \in ScreenConsoles, color \in ConsoleColors, ok1 \in BOOLEAN, ok2 \in BOOLEAN :
        /\ last.op = "none"
        /\ LET r == set_foreground_color(c, color, ok1, ok2)
           IN /\ last' = QRecord("set_foreground_color", c, color, r)
              /\ win' = [win EXCEPT !.attr = AttrAfter(r)]
        /\ UNCHANGED <<hVars, pipe, sent>>

SetBackgroundColorAct ==
    \E c \in ScreenConsoles, color \in ConsoleColors, ok1 \in BOOLEAN, ok2 \in BOOLEAN :
        /\ last.op = "none"
        /\ LET r == set_background_color(c, color, ok1, ok2)
           IN /\ last' = QRecord("set_background_color", c, color, r)
              /\ win' = [win EXCEPT !.attr = AttrAfter(r),
                                    !.bgset = IF r.kind = "ok" THEN color ELSE @]
        /\ UNCHANGED <<hVars, pipe, sent>>

GetForegroundColorAct ==
    \E c \in ScreenConsoles, ok \in BOOLEAN :
        /\ last.op = "none"
        /\ last' = QRecord("get_foreground_color", c, 0, get_foreground_color(c, ok))
        /\ UNCHANGED <<hVars, pipe, sent, win>>

GetBackgroundColorAct ==
    \E c \in ScreenConsoles, ok \in BOOLEAN :
        /\ last.op = "none"
        /\ last' = QRecord("get_background_color", c, 0, get_background_color(c, ok))
        /\ UNCHANGED <<hVars, pipe, sent, win>>

ColorReturn ==
    /\ last.op # "none"
    /\ last' = NoOp
    /\ UNCHANGED <<hVars, pipe, sent, win>>

ColorNext ==
    \/ SetTextAttributeAct
    \/ SetForegroundColorAct
    \/ SetBackgroundColorAct
    \/ GetForegroundColorAct
    \/ GetBackgroundColorAct
    \/ ColorReturn

SpecColor == HInit /\ [][ColorNext]_vars

\* ------------------------------------------------------------------------
\* Clearing the screen buffer
\* ------------------------------------------------------------------------
\* ' ' as u16
SPACE == 32

FillArgs(start_location, cells, value) ==
    [start |-> start_location, cells |-> cells, value |-> value]

\* WinConsole::fill_with_char, after the calls of r
fill_with_char(r, c, start_location, cells_to_write, value, ok) ==
    LET r1 == [r EXCEPT !.calls = Append(@, "FillConsoleOutputCharacterW"),
                        !.args = Append(@, FillArgs(start_location, cells_to_write, value))]
    IN IF ScreenCallOk(get_handle(c), ok)
       THEN [r1 EXCEPT !.val = cells_to_write]
       ELSE QFail(r1)

fill_with_attribute_unchecked(r, c, start_location, cells_to_write, attribute, ok) ==
    [r EXCEPT !.calls = Append(@, "FillConsoleOutputAttribute"),
              !.args = Append(@, FillArgs(start_location, cells_to_write, attribute))]

\* WinConsole::fill_with_attribute, after the calls of r
fill_with_attribute(r, c, start_location, cells_to_write, attribute, ok) ==
    LET r1 == [r EXCEPT !.calls = Append(@, "FillConsoleOutputAttribute"),
                        !.args = Append(@, FillArgs(start_location, cells_to_write,
                                                    attribute))]
    IN IF ScreenCallOk(get_handle(c), ok)
       THEN [r1 EXCEPT !.val = cells_to_write]
       ELSE QFail(r1)

\* WinConsole::set_cursor_position, after the calls of r
set_cursor_position(r, c, coord, ok) ==
    LET r1 == [r EXCEPT !.calls = Append(@, "SetConsoleCursorPosition"),
                        !.args = Append(@, FillArgs(coord, 0, 0))]
    IN IF ScreenCallOk(get_handle(c), ok)
       THEN [r1 EXCEPT !.val = 0]
       ELSE QFail(r1)

\* WinConsole::set_screen_buffer_size
set_screen_buffer_size(c, size, ok) ==
    LET r == [Q0 EXCEPT !.calls = <<"SetConsoleScreenBufferSize">>]
    IN IF ScreenCallOk(get_handle(c), ok) THEN [r EXCEPT !.val = size] ELSE QFail(r)

\* WinConsole::clear
clear(c, ok1, ok2, ok3, ok4) ==
    LET r0 == get_screen_buffer_info(c, ok1)
        info == r0.val
        size == info.screen_buffer_size
        \* u32 product of two i16 dimensions: at most 32767 * 32767, never wraps
        length == size.x * size.y
        r1 == fill_with_char([r0 EXCEPT !.val = 0], c, CoordDefault, length, SPACE, ok2)
        r2 == fill_with_attribute(r1, c, CoordDefault, length, info.attributes, ok3)
        r3 == set_cursor_position(r2, c, CoordDefault, ok4)
    IN IF r0.kind # "ok" THEN r0
       ELSE IF r1.kind # "ok" THEN r1
       ELSE IF r2.kind # "ok" THEN r2
       ELSE r3

\* The native call `call` was issued by r and did not fail
Done(r, call) == \E i \in DOMAIN r.calls : r.calls[i] = call /\ r.failed # i

\* The argument record of the native call `call` of r (the first call, the
\* query, has none)
ArgOf(r, call) == r.args[(CHOOSE i \in DOMAIN r.calls : r.calls[i] = call) - 1]

\* What the screen buffer holds after the calls of r
ScreenAfter(r) ==
    [win EXCEPT
       !.cells = [char |-> IF Done(r, "FillConsoleOutputCharacterW")
                           THEN "space" ELSE @.char,
                  attr |-> IF Done(r, "FillConsoleOutputAttribute")
                           THEN ArgOf(r, "FillConsoleOutputAttribute").value
                           ELSE @.attr],
       !.cursor = IF Done(r, "SetConsoleCursorPosition")
                  THEN ArgOf(r, "SetConsoleCursorPosition").start ELSE @]

ScreenSizes == {[x |-> 3, y |-> 2], [x |-> 2, y |-> 1]}

\* Text is written to the screen buffer with the current attribute.
PrintAct ==
    /\ last.op = "none"
    /\ win' = [win EXCEPT !.cells = [char |-> "text", attr |-> win.attr],
                          !.cursor = [x |-> 1, y |-> 0]]
    /\ UNCHANGED <<hVars, last, pipe, sent>>

SetScreenBufferSizeAct ==
    \E c \in ScreenConsoles, size \in ScreenSizes, ok \in BOOLEAN :
        /\ last.op = "none"
        /\ LET r == set_screen_buffer_size(c, size, ok)
           IN /\ last' = QRecord("set_screen_buffer_size", c, size, r)
              /\ win' = IF r.kind = "ok" THEN [win EXCEPT !.size = size] ELSE win
        /\ UNCHANGED <<hVars, pipe, sent>>

ClearAct ==
    \E c \in ScreenConsoles, ok1 \in BOOLEAN, ok2 \in BOOLEAN, ok3 \in BOOLEAN,
       ok4 \in BOOLEAN :
        /\ last.op = "none"
        /\ LET r == clear(c, ok1, ok2, ok3, ok4)
           IN /\ last' = QRecord("clear", c,
                                 [size |-> win.size, attr |-> win.attr,
                                  cells |-> win.cells, oks |-> <<ok1, ok2, ok3, ok4>>], r)
              /\ win' = ScreenAfter(r)
        /\ UNCHANGED <<hVars, pipe, sent>>

ClearNext ==
    \/ SetTextAttributeAct
    \/ PrintAct
    \/ SetScreenBufferSizeAct
    \/ ClearAct
    \/ ColorReturn

SpecClear == HInit /\ [][ClearNext]_vars

\* ------------------------------------------------------------------------
\* The console mode
\* ------------------------------------------------------------------------
\* Mode words over three flag bits (0x1, 0x2, 0x4)
ModeValues == 0..7

\* GetConsoleMode / SetConsoleMode succeed on console handles only
ModeCallOk(raw, ok) == ok /\ IsConsoleResource(raw)

\* WinConsole::get_mode
get_mode(c, ok) ==
    LET r == [Q0 EXCEPT !.calls = <<"GetConsoleMode">>]
    IN IF ModeCallOk(get_handle(c), ok)
       THEN [r EXCEPT !.val = win.mode[Kind(get_handle(c))]]
       ELSE QFail(r)

\* WinConsole::set_mode
set_mode(c, mode, ok) ==
    LET r == [Q0 EXCEPT !.calls = <<"SetConsoleMode">>]
    IN IF ModeCallOk(get_handle(c), ok) THEN r ELSE QFail(r)

\* WinConsole::has_mode: Ok((state & mode) != 0)
has_mode(c, mode, ok) ==
    LET r == get_mode(c, ok)
    IN IF r.kind = "ok" THEN [r EXCEPT !.val = (BitAnd(r.val, mode) # 0)] ELSE r

\* The mode word behind the handle of c (0 when it is not a console)
ModeOf(c) ==
    IF IsConsoleResource(get_handle(c)) THEN win.mode[Kind(get_handle(c))] ELSE 0

SetModeAct ==
    \E c \in IoConsoles, mode \in ModeValues, ok \in BOOLEAN :
        /\ last.op = "none"
        /\ LET r == set_mode(c, mode, ok)
           IN /\ last' = QRecord("set_mode", c, [mode |-> mode, state |-> ModeOf(c)], r)
              /\ win' = IF r.kind = "ok"
                        THEN [win EXCEPT !.mode[Kind(get_handle(c))] = mode]
                        ELSE win
        /\ UNCHANGED <<hVars, pipe, sent>>

GetModeAct ==
    \E c \in IoConsoles, ok \in BOOLEAN :
        /\ last.op = "none"
        /\ last' = QRecord("get_mode", c, [mode |-> 0, state |-> ModeOf(c)],
                           get_mode(c, ok))
        /\ UNCHANGED <<hVars, pipe, sent, win>>

HasModeAct ==
    \E c \in IoConsoles, mode \in ModeValues, ok \in BOOLEAN :
        /\ last.op = "none"
        /\ last' = QRecord("has_mode", c,
                           [mode |-> mode, state |-> ModeOf(c), ok |-> ok],
                           has_mode(c, mode, ok))
        /\ UNCHANGED <<hVars, pipe, sent, win>>

ModeNext ==
    \/ SetModeAct
    \/ GetModeAct
    \/ HasModeAct
    \/ ColorReturn

SpecMode == HInit /\ [][ModeNext]_vars

\* ------------------------------------------------------------------------
\* Key events and their native records
\* ------------------------------------------------------------------------
KEY_EVENT == 1

\* char::encode_utf16 of one character
CharUnits(ch) ==
    IF ch < 65536 THEN <<ch>>
    ELSE <<55296 + ((ch - 65536) \div 1024), 56320 + ((ch - 65536) % 1024)>>

\* char::encode_utf16(&mut buf) on a buffer of cap units: it panics when the
\* character does not fit.
encode_utf16(ch, cap) ==
    IF Len(CharUnits(ch)) > cap
    THEN [kind |-> "panic", val |-> <<>>]
    ELSE [kind |-> "ok", val |-> CharUnits(ch)]

\* char::try_from(u32): every scalar value, that is, no surrogate
char_try_from(u) ==
    IF IsSurrogate(u) \/ u > 1114111
    THEN [kind |-> "err", val |-> 0]
    ELSE [kind |-> "ok", val |-> u]

\* Into<KEY_EVENT_RECORD> for KeyEventRecord; uChar is one u16
KeyIntoNative(k) ==
    LET buf == encode_utf16(k.u_char, 1)
    IN IF buf.kind = "panic" THEN [kind |-> "panic", val |-> 0]
       ELSE [kind |-> "ok",
             val |-> [bKeyDown |-> IF k.key_down THEN 1 ELSE 0,
                      wRepeatCount |-> k.repeat_count,
                      wVirtualKeyCode |-> k.virtual_key_code,
                      wVirtualScanCode |-> k.virtual_scan_code,
                      uChar |-> buf.val[1],
                      dwControlKeyState |-> k.control_key_state]]

\* From<KEY_EVENT_RECORD> for KeyEventRecord; char::try_from(..).ok().unwrap()
KeyFromNative(record) ==
    LET ch == char_try_from(record.uChar)
    IN IF ch.kind # "ok" THEN [kind |-> "panic", val |-> 0]
       ELSE [kind |-> "ok",
             val |-> [key_down |-> record.bKeyDown # 0,
                      repeat_count |-> record.wRepeatCount,
                      virtual_key_code |-> record.wVirtualKeyCode,
                      virtual_scan_code |-> record.wVirtualScanCode,
                      u_char |-> ch.val,
                      control_key_state |-> record.dwControlKeyState]]

\* Into<INPUT_RECORD> for KeyEventRecord
KeyIntoInputRecord(k) ==
    LET event == KeyIntoNative(k)
    IN IF event.kind # "ok" THEN event
       ELSE [kind |-> "ok", val |-> [EventType |-> KEY_EVENT, Event |-> event.val]]

\* From<INPUT_RECORD> for InputRecord, on a record of type KEY_EVENT
KeyFromInputRecord(record) == KeyFromNative(record.Event)

KeyChars == {0, 97, 233, 65535, 66560}

KeyEventRecords ==
    [key_down : BOOLEAN, repeat_count : {1, 16}, virtual_key_code : {8, 65},
     virtual_scan_code : {32}, u_char : KeyChars, control_key_state : {0, 4, 256}]

\* The native records the console delivers: a character outside the BMP
\* arrives as two key events, one surrogate each.
NativeKeyRecords ==
    [bKeyDown : {0, 1}, wRepeatCount : {1}, wVirtualKeyCode : {65},
     wVirtualScanCode : {32}, uChar : {97, 55297, 56320}, dwControlKeyState : {0, 16}]

\* k converted to KEY_EVENT_RECORD and back
KeyRoundTripAct ==
    \E k \in KeyEventRecords :
        /\ last.op = "none"
        /\ LET native == KeyIntoNative(k)
           IN last' = [op |-> "key_round_trip", arg |-> k, native |-> native,
                       res |-> IF native.kind = "ok" THEN KeyFromNative(native.val)
                               ELSE native]
        /\ UNCHANGED <<hVars, pipe, sent, win>>

\* k converted to INPUT_RECORD and back
KeyInputRecordRoundTripAct ==
    \E k \in KeyEventRecords :
        /\ last.op = "none"
        /\ LET native == KeyIntoInputRecord(k)
           IN last' = [op |-> "key_input_round_trip", arg |-> k, native |-> native,
                       res |-> IF native.kind = "ok" THEN KeyFromInputRecord(native.val)
                               ELSE native]
        /\ UNCHANGED <<hVars, pipe, sent, win>>

\* A native key record from the console converted to KeyEventRecord
KeyFromNativeAct ==
    \E record \in NativeKeyRecords :
        /\ last.op = "none"
        /\ last' = [op |-> "key_from_native", arg |-> record,
                    native |-> [kind |-> "ok", val |-> record],
                    res |-> KeyFromNative(record)]
        /\ UNCHANGED <<hVars, pipe, sent, win>>

KeyNext ==
    \/ KeyRoundTripAct
    \/ KeyInputRecordRoundTripAct
    \/ KeyFromNativeAct
    \/ ColorReturn

SpecKey == HInit /\ [][KeyNext]_vars

\* ------------------------------------------------------------------------
\* The console title
\* ------------------------------------------------------------------------
MAX_PATH == 260

\* str::encode_utf16
RECURSIVE EncodeUtf16(_)
EncodeUtf16(chars) ==
    IF chars = <<>> THEN <<>>
    ELSE LET ch == Head(chars)
         IN (IF ch < 65536 THEN <<ch>>
             ELSE <<55296 + ((ch - 65536) \div 1024), 56320 + ((ch - 65536) % 1024)>>)
            \o EncodeUtf16(Tail(chars))

\* The units of a NUL-terminated wide string: those before the first NUL
RECURSIVE UpToNul(_)
UpToNul(units) ==
    IF units = <<>> \/ Head(units) = 0 THEN <<>>
    ELSE <<Head(units)>> \o UpToNul(Tail(units))

\* WinConsole::set_title: the title as a NUL-terminated UTF-16 buffer, given
\* to SetConsoleTitleW.
set_title(title, ok) ==
    LET buffer == IF title # <<>> /\ title[Len(title)] = 0
                  THEN EncodeUtf16(title)
                  ELSE EncodeUtf16(Append(title, 0))
        r == [Q0 EXCEPT !.calls = <<"SetConsoleTitleW">>]
    IN IF ~ok THEN QFail(r)
       ELSE [r EXCEPT !.val = UpToNul(buffer)]

\* DecodeUtf16 over a long buffer, by halves; a surrogate pair is never cut.
RECURSIVE DecodeUtf16Long(_)
DecodeUtf16Long(units) ==
    IF Len(units) <= 8 THEN DecodeUtf16(units)
    ELSE LET h == Len(units) \div 2
             m == IF IsHighSurrogate(units[h]) THEN h - 1 ELSE h
         IN DecodeUtf16Long(SubSeq(units, 1, m))
            \o DecodeUtf16Long(SubSeq(units, m + 1, Len(units)))

\* `String::from_utf16(&buffer)` in get_title
title_from_utf16(units) ==
    IF ValidUtf16(units) THEN [ok |-> TRUE, chars |-> DecodeUtf16Long(units)]
    ELSE [ok |-> FALSE, chars |-> <<>>]

\* WinConsole::get_title: GetConsoleTitleW copies the title into the zeroed
\* buffer of MAX_PATH units and returns its length; length 0 is taken as a
\* failure; the whole buffer is decoded.
get_title(ok) ==
    LET length == IF ok THEN Len(win.title) ELSE 0
        buffer == IF ok THEN win.title \o Fill(MAX_PATH - Len(win.title), 0)
                  ELSE Fill(MAX_PATH, 0)
        r == [Q0 EXCEPT !.calls = <<"GetConsoleTitleW">>]
    IN IF length = 0 THEN QFail(r)
       ELSE IF title_from_utf16(buffer).ok
            THEN [r EXCEPT !.val = title_from_utf16(buffer).chars]
            ELSE [r EXCEPT !.kind = "err", !.err = "InvalidData"]

\* 'A', NUL, U+00E9, U+10400
TitleAlphabet == {65, 0, 233, 66560}

SetTitleAct ==
    \E title \in SeqsUpTo(TitleAlphabet, MaxLen), ok \in BOOLEAN :
        /\ last.op = "none"
        /\ LET r == set_title(title, ok)
           IN /\ last' = [op |-> "set_title", arg |-> title, res |-> r]
              /\ win' = IF r.kind = "ok"
                        THEN [win EXCEPT !.title = r.val,
                                         !.tset = [set |-> TRUE, text |-> title]]
                        ELSE win
        /\ UNCHANGED <<hVars, pipe, sent>>

GetTitleAct ==
    \E ok \in BOOLEAN :
        /\ last.op = "none"
        /\ last' = [op |-> "get_title", arg |-> <<>>, res |-> get_title(ok)]
        /\ UNCHANGED <<hVars, pipe, sent, win>>



\* ------------------------------------------------------------------------
\* The processes attached to the console
\* ------------------------------------------------------------------------
BUFFER_SIZE == 4

\* GetConsoleProcessList(buffer, size): 0 on failure; otherwise the number of
\* attached processes, their ids stored in the buffer only if they all fit.
GetConsoleProcessList(buffer, ok) ==
    IF ~ok THEN [count |-> 0, buffer |-> buffer]
    ELSE IF Len(win.procs) <= Len(buffer)
         THEN [count |-> Len(win.procs),
               buffer |-> win.procs \o SubSeq(buffer, Len(win.procs) + 1, Len(buffer))]
         ELSE [count |-> Len(win.procs), buffer |-> buffer]

\* `buffer.repeat(required)` builds a new vector and drops it: the buffer
\* keeps its length.
AfterRepeat(buffer, required) == buffer

\* WinConsole::get_process_list
get_process_list(ok1, ok2) ==
    LET first == GetConsoleProcessList(Fill(BUFFER_SIZE, 0), ok1)
        r == [Q0 EXCEPT !.calls = <<"GetConsoleProcessList">>]
    IN IF first.count = 0 THEN QFail(r)
       ELSE IF first.count > Len(first.buffer)
            THEN LET required == first.count - Len(first.buffer)
                     second == GetConsoleProcessList(
                                   AfterRepeat(first.buffer, required), ok2)
                 IN [r EXCEPT !.calls = Append(@, "GetConsoleProcessList"),
                              !.failed = IF second.count = 0 THEN 2 ELSE 0,
                              !.val = second.buffer]
            ELSE [r EXCEPT !.val = first.buffer]

\* Another process attaches to the console.
ProcAttach ==
    /\ last.op = "none" /\ Len(win.procs) < MaxProcs
    /\ win' = [win EXCEPT !.procs = Append(@, Pid(Len(@) + 1))]
    /\ UNCHANGED <<hVars, last, pipe, sent>>

\* The process attached last leaves the console.
ProcDetach ==
    /\ last.op = "none" /\ Len(win.procs) > 1
    /\ win' = [win EXCEPT !.procs = SubSeq(@, 1, Len(@) - 1)]
    /\ UNCHANGED <<hVars, last, pipe, sent>>

GetProcessListAct ==
    \E ok1 \in BOOLEAN, ok2 \in BOOLEAN :
        /\ last.op = "none"
        /\ last' = [op |-> "get_process_list", arg |-> <<>>,
                    res |-> get_process_list(ok1, ok2)]
        /\ UNCHANGED <<hVars, pipe, sent, win>>

SessionReturn ==
    /\ last.op # "none"
    /\ last' = NoOp
    /\ UNCHANGED <<hVars, pipe, sent, win>>

SessionNext ==
    \/ SetTitleAct
    \/ GetTitleAct
    \/ ProcAttach
    \/ ProcDetach
    \/ GetProcessListAct
    \/ SessionReturn

SpecSession == HInit /\ [][SessionNext]_vars

\* ------------------------------------------------------------------------
\* A text sent through a redirected sink (a pipe) and read back
\* ------------------------------------------------------------------------
\* console.write_utf16(T) through an endpoint whose handle is the pipe
RtWrite ==
    \E c \in IoConsoles, T \in SeqsUpTo(UnitAlphabet, MaxLen) :
      \E os \in CountOutcomes(Len(T)) :
        /\ sent.phase = "idle" /\ Kind(c.raw) = "file"
        /\ LET r == write_utf16(c, T, os)
           IN /\ last' = Record("write_utf16", c, Len(T), T, FALSE, r)
              /\ pipe' = pipe \o r.sink
              /\ sent' = [phase |-> "written", text |-> T, sunk |-> r.sink,
                          accepted |-> r.kind = "ok" /\ r.reported = Len(r.offered),
                          drained |-> FALSE]
        /\ UNCHANGED <<hVars, win>>

\* console.read_utf16(&mut buffer) at the other end: ReadFile takes at most
\* what the pipe holds.
RtReadUtf16 ==
    \E c \in IoConsoles, n \in 1..MaxLen :
      \E os \in CountOutcomes(n) :
        /\ sent.phase = "written" /\ Kind(c.raw) = "file"
        /\ os.count <= Len(pipe)
        /\ LET r == read_utf16(c, Fill(n, 0), os)
           IN /\ last' = Record("read_utf16", c, n, Fill(n, 0), FALSE, r)
              /\ pipe' = SubSeq(pipe, r.reported + 1, Len(pipe))
              /\ sent' = [sent EXCEPT !.phase = "read",
                                      !.drained = r.reported = Len(pipe)]
        /\ UNCHANGED <<hVars, win>>

\* console.read_string() at the other end
RtReadString ==
    \E c \in IoConsoles :
      \E os \in CountOutcomes(2 * MaxLen) :
        /\ sent.phase = "written" /\ Kind(c.raw) = "file"
        /\ os.count <= Len(pipe)
        /\ LET r == read_string(c, os)
           IN /\ last' = Record("read_string", c, MAX_BUFFER_SIZE, <<>>, FALSE, r)
              /\ pipe' = SubSeq(pipe, r.reported + 1, Len(pipe))
              /\ sent' = [sent EXCEPT !.phase = "read",
                                      !.drained = r.reported = Len(pipe)]
        /\ UNCHANGED <<hVars, win>>

\* The pipe is emptied and closed; a new exchange can start.
RtReset ==
    /\ sent.phase = "read"
    /\ pipe' = <<>>
    /\ sent' = NotSent
    /\ last' = NoOp
    /\ UNCHANGED <<hVars, win>>

RtNext == RtWrite \/ RtReadUtf16 \/ RtReadString \/ RtReset

SpecRoundTrip == HInit /\ [][RtNext]_vars

\* ------------------------------------------------------------------------
\* Handle ownership: properties
\* ------------------------------------------------------------------------
NoLiveOwner(r) ==
    \A s \in Slots : ~(handles[s].ownership = "Owned" /\ handles[s].raw = r)

NoLiveHandle(r) ==
    \A s \in Slots : ~(Live(s) /\ handles[s].raw = r)

\* C1: for every resource an Owned handle was made over, CloseHandle is never
\* issued twice, and once no Owned value over it is alive it has been issued
\* exactly once.
C1_ReleasedExactlyOnce ==
    \A r \in Resources :
        everOwned[r] =>
            /\ closeCalls[r] <= 1
            /\ NoLiveOwner(r) => closeCalls[r] = 1

\* C2: a resource that only Shared handles were ever made over receives no
\* CloseHandle call, however many of those handles were dropped.
C2_SharedDropNoRelease ==
    \A r \in Resources : ~everOwned[r] => closeCalls[r] = 0

\* Two Shared handles over the same resource have been dropped, none is alive.
C2_Witness ==
    \E r \in StdResources :
        sharedDrops[r] = 2 /\ NoLiveHandle(r) /\ closeCalls[r] = 0

\* C3: an operation through a role-bound endpoint acts on the handle the
\* role's standard-handle slot holds at the time of the call.
C3_ObservesRebind ==
    (hlast.op = "get_mode" /\ hlast.origin \in Roles) => hlast.used = hlast.current

\* ------------------------------------------------------------------------
\* Text and input-event I/O: properties
\* ------------------------------------------------------------------------
WriteOps == {"write_utf8", "write_utf16"}
TextOps == WriteOps \cup {"read_utf16", "read_utf16_with_control"}
ZeroLengthOps ==
    TextOps \cup {"read_utf8", "read_utf8_with_control", "read_input", "peek_input",
                  "read_input_n"}
EventReadOps == {"read_input", "read_single_input", "read_input_n"}

Called(ops) == last.op \in ops
IssuedConsole == \E i \in DOMAIN last.res.calls : last.res.calls[i] \in ConsoleCalls
IssuedByte == \E i \in DOMAIN last.res.calls : last.res.calls[i] \in ByteCalls
Probed == \E i \in DOMAIN last.res.calls : last.res.calls[i] = "GetConsoleMode"
DataValid ==
    IF last.op = "write_utf8" THEN ValidUtf8(last.data) ELSE ValidUtf16(last.data)
HasCtrlZ(units) == \E i \in DOMAIN units : units[i] = CTRL_Z
FirstCtrlZ(units) ==
    CHOOSE i \in DOMAIN units :
        units[i] = CTRL_Z /\ \A j \in 1..(i - 1) : units[j] # CTRL_Z

\* C4: a read or write given a zero-length buffer returns success with a zero
\* count (an empty list for read_input_n) and issues no native call, whatever
\* the handle is.
C4_ZeroLengthNoOp ==
    (Called(ZeroLengthOps) /\ last.n = 0) =>
        /\ last.res.kind = "ok"
        /\ last.res.val = 0
        /\ last.res.calls = <<>>
        /\ last.res.events = <<>>

C4_Witness ==
    /\ Called({"read_utf16"}) /\ last.n = 0
    /\ Kind(last.raw) = "invalid"
    /\ last.res.kind = "ok" /\ last.res.calls = <<>>

\* C5: a write through a handle that is not a console returns the count the
\* native byte-stream write reported whenever that write reports success.
C5_RedirectedReturnsReported ==
    (Called(WriteOps) /\ ~IsConsoleResource(last.raw) /\ last.res.osok) =>
        /\ last.res.kind = "ok"
        /\ last.res.val = last.res.reported

\* C6: a valid text written with write_utf16 through a redirected sink and
\* read back through the non-console path comes back unchanged: the sink
\* received its complete encoding and the reader holds the text.
C6_RoundTrip ==
    (/\ sent.phase = "read" /\ ValidUtf16(sent.text)
     /\ sent.accepted /\ sent.drained /\ last.res.kind = "ok") =>
        /\ sent.sunk = Utf8Encode(DecodeUtf16(sent.text))
        /\ last.op = "read_utf16" =>
               SubSeq(last.res.buf, 1, last.res.val) = sent.text
        /\ last.op = "read_string" => last.res.text = DecodeUtf16(sent.text)

C8_ConsoleWriteAllOrFail ==
    (Called(WriteOps) /\ IsConsoleResource(last.raw) /\ last.n > 0) =>
        /\ last.res.kind = "ok" => last.res.val = last.n
        /\ (last.res.osok /\ last.res.reported < last.n) => last.res.kind = "panic"

C8_Witness ==
    /\ Called({"write_utf16"}) /\ Kind(last.raw) = "console_output"
    /\ last.res.osok /\ last.res.reported < last.n
    /\ last.res.kind = "panic"

\* C9: in a console-path read_utf16 or read_string, when Ctrl-Z appears among
\* the units the console returned, the reported count is the number of units
\* before its first occurrence.
C9_CtrlZTruncates ==
    (/\ Called({"read_utf16", "read_string"}) /\ IsConsoleResource(last.raw)
     /\ last.res.kind = "ok" /\ HasCtrlZ(last.res.delivered)) =>
        last.res.val = FirstCtrlZ(last.res.delivered) - 1

\* C10: read_input, read_single_input and read_input_n (n > 0) through a
\* handle that is not a console return an error.
C10_EventReadNeedsConsole ==
    (Called(EventReadOps) /\ last.n > 0 /\ ~IsConsoleResource(last.raw)) =>
        last.res.kind = "err"

C10_Witness ==
    /\ Called({"read_input_n"}) /\ last.n > 0
    /\ Kind(last.raw) = "file"
    /\ last.res.kind = "err" /\ last.res.calls = <<"ReadConsoleInputW">>

\* C11: a successful peek_input leaves the input queue as it was, a
\* read_input with the same capacity that follows it returns the same events
\* in the same order, and a successful read_input removes from the head of
\* the queue the events it reports.
C11_PeekDoesNotConsume ==
    /\ (last.op = "peek_input" /\ last.res.kind = "ok") => win.queue = win.before
    /\ (last.op = "read_input" /\ last.res.kind = "ok") =>
           /\ win.before = SubSeq(last.res.events, 1, last.res.val) \o win.queue
           /\ (win.prev.op = "peek_input" /\ win.prev.n = last.n) =>
                  last.res.events = win.prev.res.events

C11_Witness ==
    /\ last.op = "read_input" /\ last.res.kind = "ok" /\ last.n = MaxLen
    /\ win.prev.op = "peek_input" /\ win.prev.n = last.n
    /\ last.res.events = win.prev.res.events
    /\ Len(win.queue) < Len(win.before)

\* A surrogate that is not half of a high-low pair
Unpaired(units, i) ==
    \/ IsHighSurrogate(units[i]) /\ ~(i < Len(units) /\ IsLowSurrogate(units[i + 1]))
    \/ IsLowSurrogate(units[i]) /\ ~(i > 1 /\ IsHighSurrogate(units[i - 1]))

ReleaseFailed == \E r \in Resources : closeCalls[r] > 1

\* The native call succeeded and reported fewer units than the console write
\* offered, or an event read succeeded reporting no event (debug builds).
OsContractBroken ==
    \/ /\ Called(WriteOps) /\ IsConsoleResource(last.raw)
       /\ last.res.osok /\ last.res.reported < last.n
    \/ /\ Called(EventReadOps \cup {"peek_input"}) /\ last.debug
       /\ last.res.osok /\ last.res.reported = 0

\* C13: a public operation panics only on an internal-consistency violation
\* of the OS contract: a failed release of an Owned handle, a console write
\* reporting fewer units than requested, a successful event read reporting
\* zero events. An invalid standard handle never causes a panic.
C13_PanicOnlyOnOsContract ==
    /\ panicked => ReleaseFailed
    /\ (last.op # "none" /\ last.res.kind = "panic") => OsContractBroken

\* C15: get_std_handle(role) returns an error with OS code 6 exactly when the
\* role's slot holds INVALID_HANDLE_VALUE; a handle it returns with Ok is
\* valid and wraps the slot's value; is_valid is true iff the raw value is
\* not INVALID_HANDLE_VALUE.
C15_StdHandleValidOrError ==
    /\ \A role \in Roles :
          /\ ~get_std_handle(role).ok <=> stdSlot[role] = -1
          /\ ~get_std_handle(role).ok => get_std_handle(role).code = 6
          /\ get_std_handle(role).ok =>
                 /\ is_valid(get_std_handle(role).handle)
                 /\ get_std_handle(role).handle.raw = stdSlot[role]
    /\ console.origin \in Roles => is_valid(console)
    /\ is_valid(console) <=> console.raw # -1

\* WinConsole::input() met an invalid standard handle: get_std_handle
\* returned the error and the factory did not produce an endpoint.
C15_Witness ==
    /\ panicked /\ console.origin = "none"
    /\ \E role \in Roles :
          stdSlot[role] = INVALID_HANDLE_VALUE /\ ~get_std_handle(role).ok

\* C18: the count read_utf8 and read_utf8_with_control return on the console
\* path is the length of the UTF-8 encoding of the units the read delivered;
\* buffer positions the read did not fill are not counted.
C18_Utf8CountIsDataRead ==
    (/\ Called({"read_utf8", "read_utf8_with_control"}) /\ IsConsoleResource(last.raw)
     /\ last.res.kind = "ok" /\ last.n > 0
     /\ ValidUtf16(last.res.delivered) /\ ~HasCtrlZ(last.res.delivered)) =>
        last.res.val = Len(Utf8Encode(DecodeUtf16(last.res.delivered)))

\* C16: after set_background_color(c) has succeeded, get_background_color()
\* returns Ok(c).
C16_BackgroundRoundTrip ==
    (/\ last.op = "get_background_color" /\ last.res.failed = 0
     /\ win.bgset # NoColor) =>
        last.res.kind = "ok" /\ last.res.val = win.bgset

\* C17: after set_title(T) has succeeded for a title T without NUL, a
\* successful get_title() returns exactly T, with no trailing NUL or padding.
C17_TitleRoundTrip ==
    (/\ last.op = "get_title" /\ last.res.kind = "ok" /\ win.tset.set
     /\ \A i \in DOMAIN win.tset.text : win.tset.text[i] # 0) =>
        last.res.val = win.tset.text

\* C19: a successful get_process_list returns exactly the ids of the
\* processes attached to the console, one entry each.
C19_ProcessListExact ==
    (last.op = "get_process_list" /\ last.res.kind = "ok") =>
        last.res.val = win.procs

IoOps == ZeroLengthOps \cup {"read_string", "read_single_input"}

\* C12: when a native call of an operation reports failure, the operation
\* returns the OS error and the failed call is the last one it issued.
C12_NativeFailureSurfaced ==
    /\ (Called(IoOps) /\ (IssuedConsole \/ IssuedByte \/ Called(EventReadOps \cup {"peek_input"}))
        /\ last.res.calls # <<>> /\ ~last.res.osok) =>
           last.res.kind = "err" /\ last.res.err = "os"
    /\ (last.op # "none" /\ ~Called(IoOps) /\ last.res.failed > 0) =>
           /\ last.res.kind = "err" /\ last.res.err = "os"
           /\ last.res.failed = Len(last.res.calls)

\* The native calls of a complete clear(), in order
ClearCalls ==
    <<"GetConsoleScreenBufferInfo", "FillConsoleOutputCharacterW",
      "FillConsoleOutputAttribute", "SetConsoleCursorPosition">>

\* The step of clear() at which the OS reports failure (0: none)
FirstFailure ==
    IF Kind(last.raw) # "console_output" THEN 1
    ELSE IF \A i \in 1..4 : last.arg.oks[i] THEN 0
    ELSE CHOOSE i \in 1..4 : ~last.arg.oks[i] /\ \A j \in 1..(i - 1) : last.arg.oks[j]

\* C20: clear() queries the buffer, fills size.x * size.y cells from (0,0)
\* with the space character, fills the same cells with the attribute in
\* effect before the call, then sets the cursor to (0,0), in that order; the
\* first step that fails ends the operation with its error.
C20_ClearSteps ==
    last.op = "clear" =>
        LET n == last.arg.size.x * last.arg.size.y
            steps == IF FirstFailure = 0 THEN 4 ELSE FirstFailure
            expected == <<[start |-> [x |-> 0, y |-> 0], cells |-> n, value |-> 32],
                          [start |-> [x |-> 0, y |-> 0], cells |-> n,
                           value |-> last.arg.attr],
                          [start |-> [x |-> 0, y |-> 0], cells |-> 0, value |-> 0]>>
        IN /\ last.res.calls = SubSeq(ClearCalls, 1, steps)
           /\ last.res.args = SubSeq(expected, 1, steps - 1)
           /\ FirstFailure = 0 =>
                  /\ last.res.kind = "ok"
                  /\ win.cells = [char |-> "space", attr |-> last.arg.attr]
                  /\ win.cursor = [x |-> 0, y |-> 0]
           /\ FirstFailure > 0 =>
                  /\ last.res.kind = "err" /\ last.res.err = "os"
                  /\ last.res.failed = FirstFailure

C20_Witness ==
    /\ last.op = "clear" /\ last.res.kind = "ok"
    /\ last.arg.cells.char = "text" /\ last.arg.cells.attr # last.arg.attr
    /\ Len(last.res.args) = 3 /\ last.res.args[1].cells = 6
    /\ win.cells = [char |-> "space", attr |-> last.arg.attr]
    /\ win.cursor = CoordDefault

\* C21: has_mode(mode) returns Ok(true) exactly when every flag bit of mode
\* is set in the word get_mode() returns, Ok(false) otherwise, and returns
\* the error of get_mode() when that call fails.
C21_HasModeEveryFlag ==
    last.op = "has_mode" =>
        IF ModeCallOk(last.raw, last.arg.ok)
        THEN /\ last.res.kind = "ok"
             /\ last.res.val = (BitAnd(last.arg.state, last.arg.mode) = last.arg.mode)
        ELSE last.res.kind = "err" /\ last.res.err = "os"

\* C22: converting a KeyEventRecord to the native KEY_EVENT_RECORD, or to an
\* INPUT_RECORD (whose EventType is then KEY_EVENT), and back yields the same
\* record, for every KeyEventRecord.
C22_KeyEventRoundTrip ==
    /\ last.op \in {"key_round_trip", "key_input_round_trip"} =>
           (last.res.kind = "ok" /\ last.res.val = last.arg)
    /\ last.op = "key_input_round_trip" =>
           (last.native.kind = "ok" /\ last.native.val.EventType = KEY_EVENT)

OwnedOrigins == {"current_input", "current_output", "screen_buffer"}

\* C23: a handle from get_std_handle, and so the handle of an endpoint made by
\* input / output / error, is Shared; a handle from get_current_input_handle,
\* get_current_output_handle or create_console_screen_buffer is Owned; and no
\* step that constructs or drops a role-bound endpoint issues CloseHandle.
C23_OwnershipByOrigin ==
    [][/\ \A role \in Roles :
              get_std_handle(role).ok => get_std_handle(role).handle.ownership = "Shared"
       /\ \A raw \in Resources :
              /\ get_current_handle(raw).handle.ownership = "Owned"
              /\ create_console_screen_buffer(raw).handle.ownership = "Owned"
       /\ console'.origin \in Roles => console'.ownership = "Shared"
       /\ console'.origin \in OwnedOrigins => console'.ownership = "Owned"
       /\ (console' # console /\ (console.origin \in Roles \/ console'.origin \in Roles))
              => (closeCalls' = closeCalls /\ open' = open /\ ~panicked')]_vars

\* A role-bound endpoint is alive after an earlier Shared endpoint over the
\* same standard resource was dropped, and the resource is still open.
C23_Witness ==
    /\ console.origin \in Roles /\ console.ownership = "Shared"
    /\ console.raw \in StdResources /\ stdSlot[console.origin] = console.raw
    /\ sharedDrops[console.raw] >= 1
    /\ open[console.raw] /\ closeCalls[console.raw] = 0

\* C24: a set_std_handle(role, h) that returns Ok does not release what it
\* installs: a resource that was open before the call and is recorded in a
\* standard-handle slot after it is still open, for a Shared and for an
\* Owned h.
C24_SetStdHandleKeepsOpen ==
    [][rebinds' = rebinds + 1 =>
          \A r \in Resources :
              (open[r] /\ \E role \in Roles : stdSlot'[role] = r) => open'[r]]_vars

\* C25: no use after release: every live Owned Handle, and every endpoint
\* holding one, denotes a resource CloseHandle has not been issued for; in
\* particular after one clone of an Owned handle is dropped no other live
\* clone refers to the closed resource.
C25_NoUseAfterRelease ==
    /\ \A s \in Slots :
          (handles[s].ownership = "Owned" /\ handles[s].raw \in Resources)
              => (closeCalls[handles[s].raw] = 0 /\ open[handles[s].raw])
    /\ (console.ownership = "Owned" /\ console.raw \in Resources)
          => (closeCalls[console.raw] = 0 /\ open[console.raw])

====
